---- MODULE Spec2Model ----
(***************************************************************************)
(* GrantFlow: the batch pipeline  scrape -> enrich -> build.               *)
(*                                                                         *)
(* The module models                                                       *)
(*   - build.py: build() with the curation pipeline (merge, filter_junk,   *)
(*     dedupe_grants, sort), the slug assignment, the page, index,         *)
(*     sitemap, robots and resources writes;                               *)
(*   - enricher.py: enrich(), one step per input record;                   *)
(*   - scraper_v2.py: enrich() with call_ollama(), one step per record.    *)
(*                                                                         *)
(* A Python str is a sequence of one-character strings, so that lower(),   *)
(* strip(), re.sub, slicing and comparison are computed character by       *)
(* character.  A JSON object is a function from its keys to its values; a  *)
(* missing key is a key outside DOMAIN.  The fields title, link, source,   *)
(* niche, found_at and enriched_at hold strings; deadline, amount,         *)
(* eligibility, summary and tldr hold tagged values (Str, None, IntV),      *)
(* since the enrichment stages store None in them.                         *)
(***************************************************************************)
EXTENDS Integers, Sequences, FiniteSets, TLC

-----------------------------------------------------------------------------
(* Python str                                                              *)

\* The printable ASCII characters in code-point order, 32 (space) .. 126 (~);
\* "GRAVE" stands for the backquote (96), which a TLA+ string cannot hold.
ASCII == << " ", "!", "\"", "#", "$", "%", "&", "'", "(", ")", "*", "+", ",", "-", ".", "/", "0", "1", "2", "3", "4", "5", "6", "7", "8", "9", ":", ";", "<", "=", ">", "?", "@", "A", "B", "C", "D", "E", "F", "G", "H", "I", "J", "K", "L", "M", "N", "O", "P", "Q", "R", "S", "T", "U", "V", "W", "X", "Y", "Z", "[", "\\", "]", "^", "_", "GRAVE", "a", "b", "c", "d", "e", "f", "g", "h", "i", "j", "k", "l", "m", "n", "o", "p", "q", "r", "s", "t", "u", "v", "w", "x", "y", "z", "{", "|", "}", "~" >>

\* ord(c)
Ord ==
    (" " :> 32) @@ ("!" :> 33) @@ ("\"" :> 34) @@ ("#" :> 35) @@ ("$" :> 36) @@ ("%" :> 37) @@
    ("&" :> 38) @@ ("'" :> 39) @@ ("(" :> 40) @@ (")" :> 41) @@ ("*" :> 42) @@ ("+" :> 43) @@
    ("," :> 44) @@ ("-" :> 45) @@ ("." :> 46) @@ ("/" :> 47) @@ ("0" :> 48) @@ ("1" :> 49) @@
    ("2" :> 50) @@ ("3" :> 51) @@ ("4" :> 52) @@ ("5" :> 53) @@ ("6" :> 54) @@ ("7" :> 55) @@
    ("8" :> 56) @@ ("9" :> 57) @@ (":" :> 58) @@ (";" :> 59) @@ ("<" :> 60) @@ ("=" :> 61) @@
    (">" :> 62) @@ ("?" :> 63) @@ ("@" :> 64) @@ ("A" :> 65) @@ ("B" :> 66) @@ ("C" :> 67) @@
    ("D" :> 68) @@ ("E" :> 69) @@ ("F" :> 70) @@ ("G" :> 71) @@ ("H" :> 72) @@ ("I" :> 73) @@
    ("J" :> 74) @@ ("K" :> 75) @@ ("L" :> 76) @@ ("M" :> 77) @@ ("N" :> 78) @@ ("O" :> 79) @@
    ("P" :> 80) @@ ("Q" :> 81) @@ ("R" :> 82) @@ ("S" :> 83) @@ ("T" :> 84) @@ ("U" :> 85) @@
    ("V" :> 86) @@ ("W" :> 87) @@ ("X" :> 88) @@ ("Y" :> 89) @@ ("Z" :> 90) @@ ("[" :> 91) @@
    ("\\" :> 92) @@ ("]" :> 93) @@ ("^" :> 94) @@ ("_" :> 95) @@ ("GRAVE" :> 96) @@ ("a" :> 97) @@
    ("b" :> 98) @@ ("c" :> 99) @@ ("d" :> 100) @@ ("e" :> 101) @@ ("f" :> 102) @@ ("g" :> 103) @@
    ("h" :> 104) @@ ("i" :> 105) @@ ("j" :> 106) @@ ("k" :> 107) @@ ("l" :> 108) @@ ("m" :> 109) @@
    ("n" :> 110) @@ ("o" :> 111) @@ ("p" :> 112) @@ ("q" :> 113) @@ ("r" :> 114) @@ ("s" :> 115) @@
    ("t" :> 116) @@ ("u" :> 117) @@ ("v" :> 118) @@ ("w" :> 119) @@ ("x" :> 120) @@ ("y" :> 121) @@
    ("z" :> 122) @@ ("{" :> 123) @@ ("|" :> 124) @@ ("}" :> 125) @@ ("~" :> 126)

\* chr(n), 32 <= n <= 126
Chr(n) == ASCII[n - 31]

MinOf(S) == CHOOSE x \in S : \A y \in S : x <= y

MaxOf(S) == CHOOSE x \in S : \A y \in S : y <= x

\* s[:n]
Take(s, n) == SubSeq(s, 1, IF Len(s) < n THEN Len(s) ELSE n)

\* str.lower(), on ASCII
LowerChar(c) == IF Ord[c] >= 65 /\ Ord[c] <= 90 THEN Chr(Ord[c] + 32) ELSE c

lower(s) == [i \in 1..Len(s) |-> LowerChar(s[i])]

\* str.strip(chars): the longest slice that neither starts nor ends with a
\* character of cs
StripSet(s, cs) ==
    LET keep == {i \in 1..Len(s) : s[i] \notin cs}
    IN  IF keep = {} THEN <<>> ELSE SubSeq(s, MinOf(keep), MaxOf(keep))

\* str.strip(): the whitespace of the alphabet is the space
strip(s) == StripSet(s, {" "})

\* str.startswith(c) for a one-character prefix
StartsWith(s, c) == Len(s) >= 1 /\ s[1] = c

\* str.replace(c, '')
RemoveChar(s, c) == SelectSeq(s, LAMBDA x : x # c)

IsDigit(c) == Ord[c] >= 48 /\ Ord[c] <= 57

\* str.isdigit(), on ASCII
isdigit(s) == Len(s) >= 1 /\ \A i \in 1..Len(s) : IsDigit(s[i])

\* a < b on str: lexicographic by code point
StrLT(a, b) ==
    \E i \in 1..Len(b) :
        /\ \A j \in 1..(i - 1) : j <= Len(a) /\ a[j] = b[j]
        /\ (i > Len(a) \/ Ord[a[i]] < Ord[b[i]])

RECURSIVE IntToStr(_)
\* str(n), n >= 0
IntToStr(n) ==
    IF n < 10 THEN <<Chr(48 + n)>>
    ELSE IntToStr(n \div 10) \o <<Chr(48 + (n % 10))>>

RECURSIVE StrToInt(_)
\* int(s), s.isdigit()
StrToInt(s) ==
    IF s = <<>> THEN 0
    ELSE 10 * StrToInt(SubSeq(s, 1, Len(s) - 1)) + (Ord[s[Len(s)]] - 48)

RECURSIVE FormatCommas(_)
\* f"{n:,}", n >= 0
FormatCommas(n) ==
    IF n < 1000 THEN IntToStr(n)
    ELSE LET r == n % 1000
             pad == IF r < 10 THEN <<"0","0">> ELSE IF r < 100 THEN <<"0">> ELSE <<>>
         IN  FormatCommas(n \div 1000) \o <<",">> \o pad \o IntToStr(r)

-----------------------------------------------------------------------------
(* JSON values and objects                                                 *)

Str(s) == [t |-> "str", s |-> s, n |-> 0]

None == [t |-> "none", s |-> <<>>, n |-> 0]

IntV(n) == [t |-> "int", s |-> <<>>, n |-> n]

\* bool(v)
Truthy(v) ==
    CASE v.t = "str" -> v.s # <<>>
      [] v.t = "int" -> v.n # 0
      [] OTHER -> FALSE

\* str(v), as an f-string renders it
PyStr(v) ==
    CASE v.t = "str" -> v.s
      [] v.t = "int" -> IntToStr(v.n)
      [] OTHER -> <<"N","o","n","e">>

\* {} as a dict
EmptyDict == [k \in {} |-> None]

\* k in g
Has(g, k) == k \in DOMAIN g

\* g.get(k, d)
Get(g, k, d) == IF k \in DOMAIN g THEN g[k] ELSE d

\* g[k] = v
SetItem(g, k, v) == (k :> v) @@ g

-----------------------------------------------------------------------------
(* build.py: program constants                                             *)

SITE_URL == <<"h","t","t","p","s",":","/","/","g","r","a","n","t","f","l","o","w",".","v","e","r","c","e","l",".","a","p","p">>

BRAND == <<"G","r","a","n","t","F","l","o","w">>

SlugMax == 80

junk_titles ==
    { <<"f","u","n","d","i","n","g"," ","o","p","p","o","r","t","u","n","i","t","i","e","s">>, <<"v","i","e","w"," ","a","w","a","r","d","e","e","s">>, <<"a","w","a","r","d","s"," ","a","n","d"," ","h","o","n","o","r","s">>,
      <<"a","o","t","f"," ","a","w","a","r","d"," ","r","e","c","i","p","i","e","n","t","s">>, <<"s","t","a","r","t"," ","a"," ","f","u","n","d","r","a","i","s","e","r">>, <<"h","o","w"," ","t","o"," ","a","p","p","l","y">>,
      <<"e","x","t","e","r","n","a","l"," ","r","e","s","e","a","r","c","h"," ","f","u","n","d","i","n","g">>, <<"p","t","e"," ","a","w","a","r","d","s">>, <<"a","v","a","i","l","a","b","l","e"," ","s","c","h","o","l","a","r","s","h","i","p","s">>,
      <<"g","r","a","n","t","s">>, <<"s","c","h","o","l","a","r","s","h","i","p","s">>, <<"a","p","p","l","y"," ","n","o","w">> }

-----------------------------------------------------------------------------
(* build.py: slugify, dedupe_grants, filter_junk, format_amount            *)

\* [a-z0-9]
IsSlugChar(c) == (Ord[c] >= 97 /\ Ord[c] <= 122) \/ IsDigit(c)

\* re.sub(r'[^a-z0-9]+', '-', s): every maximal run of characters outside
\* [a-z0-9] becomes one hyphen, which stands here at the last character of
\* the run; "" marks the other characters of the run, which are dropped
ReSubNonSlug(s) ==
    SelectSeq([k \in 1..Len(s) |->
                    IF IsSlugChar(s[k]) THEN s[k]
                    ELSE IF k = Len(s) \/ IsSlugChar(s[k + 1]) THEN "-"
                    ELSE ""],
              LAMBDA c : c # "")

slugify(text) == Take(StripSet(ReSubNonSlug(lower(text)), {"-"}), SlugMax)

\* DedupeKey without the normalisation of the title
DedupeKey_RawTitle(g) == g["title"] \o <<"|">> \o Get(g, "source", <<>>)

\* f"{g['title'].lower().strip()}|{g.get('source','')}"
DedupeKey(g) == strip(lower(g["title"])) \o <<"|">> \o Get(g, "source", <<>>)

RECURSIVE DedupeLoop(_, _, _)
DedupeLoop(grants, seen, unique) ==
    IF grants = <<>> THEN unique
    ELSE LET g == Head(grants)
             key == DedupeKey(g)
         IN  IF key \notin seen
             THEN DedupeLoop(Tail(grants), seen \cup {key}, Append(unique, g))
             ELSE DedupeLoop(Tail(grants), seen, unique)

dedupe_grants(grants) == DedupeLoop(grants, {}, <<>>)

\* IsJunk with the title test "a denylist entry occurs in the title"
IsJunk_Contains(g) ==
    \/ LET t == strip(lower(g["title"]))
       IN  \E j \in junk_titles :
            \E p \in 1..(Len(t) - Len(j) + 1) : SubSeq(t, p, p + Len(j) - 1) = j
    \/ Len(g["title"]) < 5
    \/ StartsWith(Get(g, "link", <<>>), "#")

\* the three "continue" tests of filter_junk
IsJunk(g) ==
    \/ strip(lower(g["title"])) \in junk_titles
    \/ Len(g["title"]) < 5
    \/ StartsWith(Get(g, "link", <<>>), "#")

\* filter_junk run on the list dedupe_grants leaves: the order dedup, filter
filter_junk_AfterDedupe(grants) ==
    SelectSeq(dedupe_grants(grants), LAMBDA g : ~IsJunk(g))

filter_junk(grants) == SelectSeq(grants, LAMBDA g : ~IsJunk(g))

format_amount(amount) ==
    IF ~Truthy(amount) THEN <<"S","e","e"," ","d","e","t","a","i","l","s">>
    ELSE LET s == RemoveChar(PyStr(amount), ",")
         IN  IF isdigit(s) THEN <<"$">> \o FormatCommas(StrToInt(s))
             ELSE PyStr(amount)

-----------------------------------------------------------------------------
(* build.py: the sort of build()                                           *)

\* SortKey with the two ranks of the amount exchanged
SortKey_AmountLast(g) ==
    << IF Truthy(Get(g, "amount", None)) THEN 1 ELSE 0,
       Get(g, "niche", <<"Z","Z","Z">>),
       Get(g, "title", <<>>) >>

\* key=lambda g: (0 if g.get('amount') else 1, g.get('niche', 'ZZZ'),
\*                g.get('title', ''))
SortKey(g) ==
    << IF Truthy(Get(g, "amount", None)) THEN 0 ELSE 1,
       Get(g, "niche", <<"Z","Z","Z">>),
       Get(g, "title", <<>>) >>

\* k1 < k2 on the key tuples
KeyLT(k1, k2) ==
    \/ k1[1] < k2[1]
    \/ /\ k1[1] = k2[1]
       /\ \/ StrLT(k1[2], k2[2])
          \/ k1[2] = k2[2] /\ StrLT(k1[3], k2[3])

RECURSIVE InsertByKey_Unstable(_, _)
\* InsertByKey that puts g before the elements of equal key
InsertByKey_Unstable(sorted, g) ==
    IF sorted = <<>> THEN <<g>>
    ELSE IF ~KeyLT(SortKey(Head(sorted)), SortKey(g)) THEN <<g>> \o sorted
    ELSE <<Head(sorted)>> \o InsertByKey_Unstable(Tail(sorted), g)

RECURSIVE InsertByKey(_, _)
\* g goes before the first element whose key is greater than g's
InsertByKey(sorted, g) ==
    IF sorted = <<>> THEN <<g>>
    ELSE IF KeyLT(SortKey(g), SortKey(Head(sorted))) THEN <<g>> \o sorted
    ELSE <<Head(sorted)>> \o InsertByKey(Tail(sorted), g)

RECURSIVE SortLoop(_, _)
SortLoop(rest, sorted) ==
    IF rest = <<>> THEN sorted
    ELSE SortLoop(Tail(rest), InsertByKey(sorted, Head(rest)))

\* list.sort(key=...): the stable ascending sort
sort_grants(grants) == SortLoop(grants, <<>>)

-----------------------------------------------------------------------------
(* build.py: build_grant_page, build_card_html, build_index,               *)
(* build_sitemap, build_robots, build_resources_page                       *)
(*                                                                         *)
(* A builder returns Ok(document) or Raise(exception).  A document is the  *)
(* record of the values its template interpolates.                         *)

Ok(v) == [err |-> "", val |-> v]

Raise(e) == [err |-> e, val |-> <<>>]

build_grant_page(grant, slug) ==
    IF ~Has(grant, "niche") THEN Raise("KeyError")          \* grant['niche']
    ELSE
    LET amount == format_amount(Get(grant, "amount", None))
        deadline == Get(grant, "deadline", Str(<<"N","o","t"," ","s","p","e","c","i","f","i","e","d">>))
        summary == Get(grant, "summary", Str(<<"V","i","s","i","t"," ","t","h","e"," ","s","o","u","r","c","e"," ","f","o","r"," ","f","u","l","l"," ","d","e","t","a","i","l","s",".">>))
        eligibility == Get(grant, "eligibility", Str(<<"S","e","e"," ","t","h","e"," ","o","f","f","i","c","i","a","l"," ","p","a","g","e"," ","f","o","r"," ","r","e","q","u","i","r","e","m","e","n","t","s",".">>))
        link == Get(grant, "link", <<"#">>)
        source == Get(grant, "source", <<"U","n","k","n","o","w","n">>)
        title == grant["title"] \o <<" ","|"," ">> \o BRAND
    IN  IF summary.t # "str" THEN Raise("TypeError")        \* summary[:155]
        ELSE Ok([ title |-> title,
                  desc |-> Take(summary.s, 155),
                  canonical |-> SITE_URL \o <<"/","g","r","a","n","t","s","/">> \o slug \o <<".","h","t","m","l">>,
                  niche |-> grant["niche"],
                  h1 |-> grant["title"],
                  amount |-> amount,
                  deadline |-> PyStr(deadline),
                  source |-> source,
                  summary |-> PyStr(summary),
                  eligibility |-> PyStr(eligibility),
                  link |-> link,
                  verified |-> Take(Get(grant, "enriched_at", <<"R","e","c","e","n","t","l","y">>), 10) ])

build_card_html(grant, slug) ==
    IF ~Has(grant, "niche") THEN Raise("KeyError")          \* grant['niche']
    ELSE
    LET amount == format_amount(Get(grant, "amount", None))
        deadline == Get(grant, "deadline", Str(<<"S","e","e"," ","w","e","b","s","i","t","e">>))
        summary == Get(grant, "summary", Str(<<>>))
        eligibility == Get(grant, "eligibility", Str(<<>>))
        deadline_badge ==
            IF Truthy(deadline) /\ deadline # Str(<<"S","e","e"," ","w","e","b","s","i","t","e">>)
            THEN PyStr(deadline) ELSE <<>>
        eligibility_html == IF Truthy(eligibility) THEN PyStr(eligibility) ELSE <<>>
        summary_html ==
            IF Truthy(summary) /\ summary.t = "str"
            THEN Take(summary.s, 120) \o (IF Len(summary.s) > 120 THEN <<".",".",".">> ELSE <<>>)
            ELSE <<>>
    IN  IF Truthy(summary) /\ summary.t # "str" THEN Raise("TypeError")  \* summary[:120]
        ELSE Ok([ niche |-> grant["niche"],
                  data_title |-> lower(grant["title"]),
                  deadline_badge |-> deadline_badge,
                  href |-> <<"g","r","a","n","t","s","/">> \o slug \o <<".","h","t","m","l">>,
                  title |-> grant["title"],
                  source |-> Get(grant, "source", <<>>),
                  amount |-> amount,
                  summary_html |-> summary_html,
                  eligibility_html |-> eligibility_html,
                  link |-> Get(grant, "link", <<"#">>) ])

\* sum(1 for g in grants if g.get('amount'))
WithAmounts(grants) ==
    Cardinality({k \in 1..Len(grants) : Truthy(Get(grants[k], "amount", None))})

build_index(grants, grant_slugs) ==
    IF \E k \in 1..Len(grants) : ~Has(grants[k], "niche")
    THEN Raise("KeyError")                                   \* g['niche']
    ELSE
    LET cards == [k \in 1..Len(grants) |-> build_card_html(grants[k], grant_slugs[k])]
        niches_found == {grants[k]["niche"] : k \in 1..Len(grants)}
    IN  IF \E k \in 1..Len(grants) : cards[k].err # ""
        THEN Raise(cards[MinOf({k \in 1..Len(grants) : cards[k].err # ""})].err)
        ELSE Ok([ niches_found |-> niches_found,
                  cards |-> [k \in 1..Len(grants) |-> cards[k].val],
                  total |-> Len(grants),
                  with_amounts |-> WithAmounts(grants),
                  niche_counts |->
                      [n \in niches_found |->
                          Cardinality({k \in 1..Len(grants) : grants[k]["niche"] = n})] ])

\* the <loc> of every <url> entry, in document order
build_sitemap(slugs) ==
    << SITE_URL \o <<"/">>, SITE_URL \o <<"/","r","e","s","o","u","r","c","e","s",".","h","t","m","l">> >>
    \o [k \in 1..Len(slugs) |-> SITE_URL \o <<"/","g","r","a","n","t","s","/">> \o slugs[k] \o <<".","h","t","m","l">>]

\* the Sitemap: line
build_robots == SITE_URL \o <<"/","s","i","t","e","m","a","p",".","x","m","l">>

\* one card per resource: its title and link; r["title"], r["description"]
\* and r["link"] are required
build_resources_page(resources) ==
    IF \E k \in 1..Len(resources) :
            ~(Has(resources[k], "title") /\ Has(resources[k], "description")
              /\ Has(resources[k], "link"))
    THEN Raise("KeyError")
    ELSE Ok([k \in 1..Len(resources) |->
                [title |-> resources[k]["title"], link |-> resources[k]["link"]]])

-----------------------------------------------------------------------------
(* enricher.py and scraper_v2.py: the work on one record                   *)
(*                                                                         *)
(* A fetch (requests.get) either raises or returns a response.  A response *)
(* carries its status and, for the page it holds, what the extraction      *)
(* functions return on the text of that page: None or a string each.       *)

\* datetime.now().isoformat()
Now == <<"2","0","2","6","-","0","1","-","0","2","T","0","3",":","0","4",":","0","5">>

FetchRaises == [kind |-> "raise"]

Response(status, deadline, amount, eligibility, summary) ==
    [kind |-> "resp", status |-> status, deadline |-> deadline,
     amount |-> amount, eligibility |-> eligibility, summary |-> summary]

\* enricher_record that resets the extracted fields before the fetch
enricher_record_ResetsFirst(grant, fetch) ==
    LET g0 == SetItem(SetItem(SetItem(SetItem(grant,
                "deadline", None), "amount", None), "eligibility", None),
                "summary", None)
    IN  IF ~Has(grant, "link") \/ fetch.kind = "raise" THEN g0
        ELSE IF fetch.status # 200 THEN g0
        ELSE SetItem(SetItem(SetItem(SetItem(SetItem(grant,
                "deadline", fetch.deadline),
                "amount", fetch.amount),
                "eligibility", fetch.eligibility),
                "summary", fetch.summary),
                "enriched_at", Now)

\* enricher.py, the body of the try block for one grant and one fetch:
\* the record appended to enriched
enricher_record(grant, fetch) ==
    IF ~Has(grant, "link") \/ fetch.kind = "raise" THEN grant  \* except Exception
    ELSE IF fetch.status # 200 THEN grant
    ELSE SetItem(SetItem(SetItem(SetItem(SetItem(grant,
            "deadline", fetch.deadline),
            "amount", fetch.amount),
            "eligibility", fetch.eligibility),
            "summary", fetch.summary),
            "enriched_at", Now)

\* the progress line printed for the record
enricher_log(grant, fetch) ==
    IF ~Has(grant, "link") \/ fetch.kind = "raise" THEN "Error"
    ELSE IF fetch.status # 200 THEN "HTTP"
    ELSE IF \/ Truthy(fetch.deadline) \/ Truthy(fetch.amount)
            \/ Truthy(fetch.eligibility) \/ Truthy(fetch.summary)
         THEN "OK"
         ELSE "no structured data found"

\* What requests.post to the model gives call_ollama: it raises, or answers
\* with a status and a body; the body either fails to decode (resp.json(),
\* the 'response' key, json.loads) or decodes to a JSON value.  A JSON value
\* is a dict (isdict, with its items in d) or something else.
PostRaises == [kind |-> "raise"]

PostAnswer(status, decodes, value) ==
    [kind |-> "resp", status |-> status, decodes |-> decodes, value |-> value]

JsonDict(d) == [isdict |-> TRUE, d |-> d]

JsonOther == [isdict |-> FALSE, d |-> EmptyDict]

call_ollama(post) ==
    IF post.kind = "raise" THEN JsonDict(EmptyDict)
    ELSE IF post.status # 200 THEN JsonDict(EmptyDict)
    ELSE IF ~post.decodes THEN JsonDict(EmptyDict)
    ELSE post.value

\* scraper_v2_record in which a value of the model replaces the regex value
scraper_v2_record_ModelFirst(grant, fetch, post) ==
    IF ~Has(grant, "link") \/ fetch.kind = "raise" THEN grant
    ELSE
    LET g1 == SetItem(SetItem(grant, "deadline", fetch.deadline),
                      "amount", fetch.amount)
        ai_data == call_ollama(post)
        g2 == IF ~Has(ai_data.d, "deadline") THEN g1
              ELSE SetItem(g1, "deadline", ai_data.d["deadline"])
        g3 == IF ~Has(ai_data.d, "amount") THEN g2
              ELSE SetItem(g2, "amount", ai_data.d["amount"])
        g4 == SetItem(g3, "tldr", Get(ai_data.d, "tldr", Str(<<"D","e","t","a","i","l","s"," ","i","n","s","i","d","e",".">>)))
        g5 == SetItem(g4, "eligibility", Get(ai_data.d, "eligibility", Str(<<"S","e","e"," ","w","e","b","s","i","t","e",".">>)))
    IN  IF ~ai_data.isdict THEN g1 ELSE g5

\* scraper_v2.py, the body of the try block for one grant, one fetch and
\* one model call: the record appended to enriched_grants.  The response is
\* parsed whatever its status; fetch.deadline and fetch.amount are the
\* results of the two regex searches.
scraper_v2_record(grant, fetch, post) ==
    IF ~Has(grant, "link") \/ fetch.kind = "raise" THEN grant
    ELSE
    LET g1 == SetItem(SetItem(grant, "deadline", fetch.deadline),
                      "amount", fetch.amount)
        ai_data == call_ollama(post)
        \* ai_data.get raises AttributeError on a value that is no dict
        g2 == IF Truthy(g1["deadline"]) THEN g1
              ELSE SetItem(g1, "deadline", Get(ai_data.d, "deadline", None))
        g3 == IF Truthy(g2["amount"]) THEN g2
              ELSE SetItem(g2, "amount", Get(ai_data.d, "amount", None))
        g4 == SetItem(g3, "tldr", Get(ai_data.d, "tldr", Str(<<"D","e","t","a","i","l","s"," ","i","n","s","i","d","e",".">>)))
        g5 == SetItem(g4, "eligibility", Get(ai_data.d, "eligibility", Str(<<"S","e","e"," ","w","e","b","s","i","t","e",".">>)))
    IN  IF ~ai_data.isdict THEN g1 ELSE g5

\* whether the try block ended in the except branch
scraper_v2_log(grant, fetch, post) ==
    IF ~Has(grant, "link") \/ fetch.kind = "raise" THEN "Error"
    ELSE IF ~call_ollama(post).isdict THEN "Error"           \* AttributeError
    ELSE IF scraper_v2_record(grant, fetch, post)["tldr"].t # "str"
         THEN "Error"                                        \* grant['tldr'][:50]
         ELSE "->"

-----------------------------------------------------------------------------
(* enricher.py: extract_deadline, extract_amount                           *)
(*                                                                         *)
(* The text of a page is a str that may hold the newline clean_text puts   *)
(* between the text nodes.  The regular expressions are matched as         *)
(* re.search and re.findall match them: leftmost start, alternatives in    *)
(* order, greedy and lazy repetition.  In the patterns below every         *)
(* repetition is followed by a character its own class excludes, so the    *)
(* first way of matching at a start is the only one.                       *)

\* \d
ReDigit(s, p) == p >= 1 /\ p <= Len(s) /\ s[p] # "\n" /\ IsDigit(s[p])

\* [A-Z] and [a-z] under re.IGNORECASE: an ASCII letter
ReAlpha(s, p) ==
    /\ p >= 1 /\ p <= Len(s) /\ s[p] # "\n"
    /\ Ord[LowerChar(s[p])] \in 97..122

\* \s, in the alphabet of the texts
ReSpace(s, p) == p >= 1 /\ p <= Len(s) /\ s[p] \in {" ", "\n"}

\* \w
ReWord(s, p) == ReAlpha(s, p) \/ ReDigit(s, p) \/ (p >= 1 /\ p <= Len(s) /\ s[p] = "_")

\* the literal w (in lower case) at p, under re.IGNORECASE
ReLiteral(s, p, w) ==
    /\ p + Len(w) - 1 <= Len(s)
    /\ \A k \in 1..Len(w) :
        s[p + k - 1] # "\n" /\ LowerChar(s[p + k - 1]) = w[k]

RECURSIVE ReDigits(_, _)
\* the length of the run of digits at p
ReDigits(s, p) == IF ReDigit(s, p) THEN 1 + ReDigits(s, p + 1) ELSE 0

RECURSIVE ReAlphas(_, _)
\* the length of the run of letters at p
ReAlphas(s, p) == IF ReAlpha(s, p) THEN 1 + ReAlphas(s, p + 1) ELSE 0

RECURSIVE ReSkipColonSpace(_, _)
\* [:\s]* at p: the position after the run of colons and whitespace
ReSkipColonSpace(s, p) ==
    IF p <= Len(s) /\ (s[p] = ":" \/ ReSpace(s, p))
    THEN ReSkipColonSpace(s, p + 1) ELSE p

\* \s\d{4} with the space at y - 1: the position after the year
ReLongYear(s, y) ==
    IF ReSpace(s, y - 1) /\ ReDigits(s, y) >= 4 THEN y + 4 ELSE 0

\* \d{1,2},?\s\d{4} at d, where the run of digits at d has length n
ReLongDay(s, d, n) ==
    IF n \in {1, 2}
    THEN ReLongYear(s, IF d + n <= Len(s) /\ s[d + n] = "," THEN d + n + 2
                       ELSE d + n + 1)
    ELSE 0

\* [A-Z][a-z]+\s and the rest at q, where the run of letters at q has
\* length a
ReLongMonth(s, q, a) ==
    IF a >= 2 /\ ReSpace(s, q + a)
    THEN ReLongDay(s, q + a + 1, ReDigits(s, q + a + 1))
    ELSE 0

\* [A-Z][a-z]+\s\d{1,2},?\s\d{4} at q: the position after the match, 0 when
\* there is none
ReLongDate(s, q) == ReLongMonth(s, q, ReAlphas(s, q))

\* \d{1,2}/\d{4} at m, where the run of digits at m has length n2
ReSlashDay(s, m, n2) ==
    IF /\ n2 \in {1, 2} /\ m + n2 <= Len(s) /\ s[m + n2] = "/"
       /\ ReDigits(s, m + n2 + 1) >= 4
    THEN m + n2 + 5 ELSE 0

\* \d{1,2}/ and the rest at q, where the run of digits at q has length n1
ReSlashMonth(s, q, n1) ==
    IF n1 \in {1, 2} /\ q + n1 <= Len(s) /\ s[q + n1] = "/"
    THEN ReSlashDay(s, q + n1 + 1, ReDigits(s, q + n1 + 1))
    ELSE 0

\* \d{1,2}/\d{1,2}/\d{4} at q
ReSlashDate(s, q) == ReSlashMonth(s, q, ReDigits(s, q))

\* \d{4}-\d{2}-\d{2} at q
ReIsoDate(s, q) ==
    IF /\ ReDigits(s, q) = 4 /\ q + 4 <= Len(s) /\ s[q + 4] = "-"
       /\ ReDigits(s, q + 5) = 2 /\ q + 7 <= Len(s) /\ s[q + 7] = "-"
       /\ ReDigits(s, q + 8) >= 2
    THEN q + 10 ELSE 0

\* a match: group(1) is s[from .. to - 1]; no match: from = 0
ReMatch(from, to) == [from |-> from, to |-> to]

ReNoMatch == ReMatch(0, 0)

\* the alternatives of the label of a pattern, in order, in lower case
Labels1 == << <<"d","e","a","d","l","i","n","e">>, <<"d","u","e"," ","d","a","t","e">>, <<"d","u","e">>, <<"c","l","o","s","e","s">>, <<"c","l","o","s","i","n","g"," ","d","a","t","e">> >>

Labels2 == << <<"s","u","b","m","i","t">>, <<"a","p","p","l","i","c","a","t","i","o","n">>, <<"d","u","e">>, <<"d","e","a","d","l","i","n","e">> >>

Labels34 == << <<"d","e","a","d","l","i","n","e">>, <<"d","u","e">> >>

\* the match whose group starts at q and ends before e, if e > 0
ReMatchIf(q, e) == IF e > 0 THEN ReMatch(q, e) ELSE ReNoMatch

\* m if it is a match, else other
ReOrElse(m, other) == IF m.from > 0 THEN m ELSE other

\* the end of the date of kind k at q
ReDate(s, q, k) ==
    CASE k = "long" -> ReLongDate(s, q)
      [] k = "slash" -> ReSlashDate(s, q)
      [] k = "iso" -> ReIsoDate(s, q)

\* (date) of kind k at q, as a match
ReDateAt(s, q, k) == ReMatchIf(q, ReDate(s, q, k))

RECURSIVE ReLabelled(_, _, _, _, _)
\* (?:label)[:\s]*(date) at p: the first alternative from the a-th on after
\* which the date matches
ReLabelled(s, p, labels, a, k) ==
    IF a > Len(labels) THEN ReNoMatch
    ELSE ReOrElse(IF ReLiteral(s, p, labels[a])
                  THEN ReDateAt(s, ReSkipColonSpace(s, p + Len(labels[a])), k)
                  ELSE ReNoMatch,
                  ReLabelled(s, p, labels, a + 1, k))

RECURSIVE ReLazyDate(_, _)
\* .*?(date) at q: the first long date that starts at q or after it on the
\* same line
ReLazyDate(s, q) ==
    IF q > Len(s) THEN ReNoMatch
    ELSE ReOrElse(ReMatchIf(q, ReLongDate(s, q)),
                  IF s[q] = "\n" THEN ReNoMatch ELSE ReLazyDate(s, q + 1))

RECURSIVE ReNear(_, _, _)
\* (?:submit|application|due|deadline).*?(date) at p
ReNear(s, p, a) ==
    IF a > Len(Labels2) THEN ReNoMatch
    ELSE ReOrElse(IF ReLiteral(s, p, Labels2[a])
                  THEN ReLazyDate(s, p + Len(Labels2[a]))
                  ELSE ReNoMatch,
                  ReNear(s, p, a + 1))

\* the match of the n-th pattern of extract_deadline at p
RePatternAt(s, p, n) ==
    IF n = 2 THEN ReNear(s, p, 1)
    ELSE ReLabelled(s, p, IF n = 1 THEN Labels1 ELSE Labels34, 1,
                    CASE n = 1 -> "long" [] n = 3 -> "slash" [] n = 4 -> "iso")

RECURSIVE ReSearchFrom(_, _, _)
\* the match of the n-th pattern at the first start from p on that has one
ReSearchFrom(s, p, n) ==
    IF p > Len(s) THEN ReNoMatch
    ELSE ReOrElse(RePatternAt(s, p, n), ReSearchFrom(s, p + 1, n))

\* re.search(patterns[n], text, re.IGNORECASE)
ReSearch(s, n) == ReSearchFrom(s, 1, n)

\* re.search(r'\b(rolling|open|ongoing|no deadline|continuous)\b', text,
\* re.IGNORECASE) finds something
ReRolling(s) ==
    \E p \in 1..Len(s) :
        \E w \in { <<"r","o","l","l","i","n","g">>, <<"o","p","e","n">>, <<"o","n","g","o","i","n","g">>, <<"n","o"," ","d","e","a","d","l","i","n","e">>, <<"c","o","n","t","i","n","u","o","u","s">> } :
            /\ ReLiteral(s, p, w)
            /\ ~ReWord(s, p - 1)
            /\ ~ReWord(s, p + Len(w))

\* match.group(1).strip(); the whitespace of the texts is space and newline
ReGroup(s, m) == StripSet(SubSeq(s, m.from, m.to - 1), {" ", "\n"})

RECURSIVE FirstPattern(_, _)
\* "for pattern in patterns": the match of the first pattern from the n-th
\* on that matches
FirstPattern(text, n) ==
    IF n > 4 THEN ReNoMatch
    ELSE ReOrElse(ReSearch(text, n), FirstPattern(text, n + 1))

\* extract_deadline that looks for the keywords before the dates
extract_deadline_KeywordFirst(text) ==
    IF ReRolling(text) THEN Str(<<"R","o","l","l","i","n","g">>)
    ELSE IF FirstPattern(text, 1).from > 0
    THEN Str(ReGroup(text, FirstPattern(text, 1)))
    ELSE None

\* what extract_deadline returns when match is that of the first pattern
\* that matches
DeadlineOf(text, match) ==
    IF match.from > 0 THEN Str(ReGroup(text, match))
    ELSE IF ReRolling(text) THEN Str(<<"R","o","l","l","i","n","g">>)
    ELSE None

extract_deadline(text) == DeadlineOf(text, FirstPattern(text, 1))

RECURSIVE ReGroups(_, _)
\* (?:,\d{3})* at q: the position after the last group
ReGroups(s, q) ==
    IF q <= Len(s) /\ s[q] = "," /\ ReDigit(s, q + 1) /\ ReDigit(s, q + 2)
       /\ ReDigit(s, q + 3)
    THEN ReGroups(s, q + 4) ELSE q

RECURSIVE ReFindAmounts(_, _)
\* the group s[b .. q - 1] of a match, and the groups of the matches from q on
ReAmountsFrom(s, b, q) == <<SubSeq(s, b, q - 1)>> \o ReFindAmounts(s, q)

\* re.findall(r'\$(\d{1,3}(?:,\d{3})*)', text) from p on: the groups of the
\* matches, which do not overlap
ReFindAmounts(s, p) ==
    IF p > Len(s) THEN <<>>
    ELSE IF s[p] = "$" /\ ReDigit(s, p + 1)
    THEN ReAmountsFrom(s, p + 1,
                       ReGroups(s, p + 1 + (IF ReDigits(s, p + 1) > 3 THEN 3
                                            ELSE ReDigits(s, p + 1))))
    ELSE ReFindAmounts(s, p + 1)

\* max(numeric) with commas, None for no amount
LargestOf(amounts) ==
    IF amounts # <<>>
    THEN Str(FormatCommas(MaxOf({StrToInt(RemoveChar(amounts[k], ",")) :
                                    k \in 1..Len(amounts)})))
    ELSE None

extract_amount(text) == LargestOf(ReFindAmounts(text, 1))
-----------------------------------------------------------------------------
(* Inputs                                                                  *)

\* the longest data/grants_enriched.json list a build is run on
MaxGrants == 3

\* the longest data/grants_data.json list an enrichment is run on
MaxRaw == 2

SeqsUpTo(S, n) == UNION {[1..k -> S] : k \in 0..n}

\* a record as scraper.py appends it to results
Raw(niche, source, title, link) ==
    [niche |-> niche, source |-> source, title |-> title, link |-> link,
     found_at |-> Now]

\* a page on which every extraction finds something
PageFound ==
    Response(200, Str(<<"R","o","l","l","i","n","g">>), Str(<<"5",",","0","0","0">>), Str(<<"P","T"," ","s","t","u","d","e","n","t","s">>),
             Str(<<"A"," ","g","r","a","n","t"," ","f","o","r"," ","s","t","u","d","e","n","t","s",".">>))

\* a page on which no extraction matches
PageEmpty == Response(200, None, None, None, None)

NotFound == Response(404, None, None, None, None)

\* The records of data/grants_enriched.json: what enricher.py makes of a
\* scraped record and a fetch.
RecA == enricher_record(Raw(<<"P","T">>, <<"F","4","P","T">>, <<"A"," ","G","r","a","n","t">>, <<"h","t","t","p","s",":","/","/","a",".","o","r","g","/","g">>), PageFound)

\* the title of RecA under another source
RecA2 == enricher_record(Raw(<<"P","T">>, <<"A","O","T","F">>, <<"A"," ","G","r","a","n","t">>, <<"h","t","t","p","s",":","/","/","b",".","o","r","g","/","g">>), PageFound)

\* fetched, nothing extracted: deadline, amount, eligibility, summary are None
RecB == enricher_record(Raw(<<"O","T">>, <<"A","O","T","F">>, <<"A","w","a","r","d","s">>, <<"h","t","t","p","s",":","/","/","b",".","o","r","g","/","a">>), PageEmpty)

\* fetch failed: no enrichment key
RecC == enricher_record(Raw(<<"P","T">>, <<"F","4","P","T">>, <<"A"," ","G","r","a","n","t"," ","1">>, <<"h","t","t","p","s",":","/","/","a",".","o","r","g","/","1">>), FetchRaises)

\* the dedup key of RecA, another spelling of the title
RecD == enricher_record(Raw(<<"O","T">>, <<"F","4","P","T">>, <<"a"," ","G","r","a","n","t">>, <<"h","t","t","p","s",":","/","/","a",".","o","r","g","/","G">>), NotFound)

\* a denylisted title
RecJ == enricher_record(Raw(<<"P","T">>, <<"F","4","P","T">>, <<"A","p","p","l","y"," ","N","o","w">>, <<"h","t","t","p","s",":","/","/","a",".","o","r","g","/","n">>), NotFound)

\* a placeholder link
RecH == enricher_record(Raw(<<"O","T">>, <<"A","O","T","F">>, <<"A","w","a","r","d","s">>, <<"#","t","o","p">>), FetchRaises)

\* an empty link (an anchor with href="")
RecE == enricher_record(Raw(<<"O","T">>, <<"F","4","P","T">>, <<"A","w","a","r","d","s">>, <<>>), FetchRaises)

\* a hand-written record with a title only
RecN == enricher_record([title |-> <<"A"," ","G","r","a","n","t","!">>], FetchRaises)

\* a hand-written record with a short title
RecS ==
    [niche |-> <<"P","T">>, source |-> <<"A","O","T","F">>, title |-> <<"F","u","n","d">>,
     link |-> <<"h","t","t","p","s",":","/","/","b",".","o","r","g","/","f">>]

EnrichedRecords == {RecA, RecA2, RecB, RecC, RecD, RecJ, RecH, RecE, RecN, RecS}

\* data/family_grants.json: a curated record, without timestamps
Fam1 ==
    [niche |-> <<"F","a","m","i","l","y">>, source |-> <<"U","H","C","C","F">>, title |-> <<"C","h","i","l","d"," ","G","r","a","n","t">>,
     link |-> <<"h","t","t","p","s",":","/","/","u",".","o","r","g","/","c">>, amount |-> Str(<<"2","5","0","0">>),
     deadline |-> Str(<<"R","o","l","l","i","n","g">>), summary |-> Str(<<"M","e","d","i","c","a","l"," ","g","r","a","n","t","s",".">>)]

FamilyFiles == {<<Fam1>>}

\* data/free_resources.json
Res1 ==
    [title |-> <<"E","a","r","l","y"," ","I","n","t","e","r","v","e","n","t","i","o","n">>, description |-> <<"F","r","e","e"," ","s","e","r","v","i","c","e","s",".">>,
     link |-> <<"h","t","t","p","s",":","/","/","r",".","o","r","g">>]

ResourceFiles == {<<Res1>>}

\* data/grants_data.json: scraped records, and one that a former run enriched
RawA == Raw(<<"P","T">>, <<"F","4","P","T">>, <<"A"," ","G","r","a","n","t">>, <<"h","t","t","p","s",":","/","/","a",".","o","r","g","/","g">>)

RawB == Raw(<<"O","T">>, <<"A","O","T","F">>, <<"A","w","a","r","d","s">>, <<"h","t","t","p","s",":","/","/","b",".","o","r","g","/","a">>)

RawRecords == {RawA, RawB, RecA2}

\* what a fetch of a detail page can give
Fetches ==
    {FetchRaises}
    \cup {Response(st, d, a, e, s) :
            st \in {200, 404},
            d \in {None, Str(<<"M","a","r","c","h"," ","3",","," ","2","0","2","6">>)},
            a \in {None, Str(<<"1",",","0","0","0">>)},
            e \in {None},
            s \in {None, Str(<<"A","b","o","u","t",".">>)}}

\* what the model can answer
AiFull ==
    JsonDict([deadline |-> Str(<<"R","o","l","l","i","n","g">>), amount |-> Str(<<"9","0","0","0">>),
              eligibility |-> Str(<<"P","h","D">>), tldr |-> Str(<<"F","o","r"," ","P","h","D",".">>)])

\* an object whose tldr is null and which has no other key
AiNullTldr == JsonDict([tldr |-> None])

Posts ==
    { PostRaises,
      PostAnswer(500, TRUE, AiFull),
      PostAnswer(200, FALSE, AiFull),
      PostAnswer(200, TRUE, AiFull),
      PostAnswer(200, TRUE, JsonDict(EmptyDict)),
      PostAnswer(200, TRUE, AiNullTldr),
      PostAnswer(200, TRUE, JsonOther) }

-----------------------------------------------------------------------------
(* State                                                                   *)

INPUT_DATA == "data/grants_data.json"

INPUT_FILE == "data/grants_enriched.json"

FAMILY_FILE == "data/family_grants.json"

RESOURCES_FILE == "data/free_resources.json"

VARIABLES
    prog,           \* the script that runs: "build", "enricher", "scraper_v2"
    pc,             \* its position
    disk,           \* the files, path |-> content, but for grants/*.html
    pages,          \* the files grants/<slug>.html, slug |-> document
    dirs,           \* the directories made by os.makedirs
    grants,         \* the list read from the input file, as the run changes it
    family_grants,
    resources,
    i,              \* the index of the record a loop is at (from 1)
    slug_counts,
    grant_slugs,
    enriched,       \* enriched / enriched_grants
    success,
    log,            \* the progress line of every record processed
    err,            \* the exception that ended the run, "" when none
    text,           \* enricher.py: the text of the last page, clean_text(soup)
    published       \* the records and slugs of the build before this one

vars == << prog, pc, disk, pages, dirs, grants, family_grants, resources, i,
           slug_counts, grant_slugs, enriched, success, log, err,
           text, published >>

\* no build before this one
NotYet == [kind |-> "none"]

\* the files of a set of optional files: opt[p] is {} or {content}
MkDisk(opt) ==
    [p \in {q \in DOMAIN opt : opt[q] # {}} |-> CHOOSE c \in opt[p] : TRUE]

InitLocals ==
    /\ pc = "start"
    /\ pages = EmptyDict
    /\ dirs = {}
    /\ grants = <<>>
    /\ family_grants = <<>>
    /\ resources = <<>>
    /\ i = 1
    /\ slug_counts = EmptyDict
    /\ grant_slugs = <<>>
    /\ enriched = <<>>
    /\ success = 0
    /\ log = <<>>
    /\ err = ""
    /\ text = <<>>
    /\ published = NotYet

-----------------------------------------------------------------------------
(* build.py: build()                                                       *)

Init ==
    /\ prog = "build"
    /\ \E ge \in {{}} \cup {{l} : l \in SeqsUpTo(EnrichedRecords, MaxGrants)},
          fa \in {{}} \cup {{l} : l \in FamilyFiles},
          re \in {{}} \cup {{l} : l \in ResourceFiles} :
            disk = MkDisk((INPUT_FILE :> ge) @@ (FAMILY_FILE :> fa)
                          @@ (RESOURCES_FILE :> re))
    /\ InitLocals

\* fg['found_at'] = fg.get('found_at', now), and the same for enriched_at
Backfill(fg) ==
    LET f1 == SetItem(fg, "found_at", Get(fg, "found_at", Now))
    IN  SetItem(f1, "enriched_at", Get(f1, "enriched_at", Now))

\* Load with os.makedirs moved before open(INPUT_FILE)
Load_MakesDirsFirst ==
    /\ prog = "build" /\ pc = "start"
    /\ dirs' = dirs \cup {"grants"}
    /\ IF INPUT_FILE \notin DOMAIN disk
       THEN /\ err' = "FileNotFoundError"
            /\ pc' = "failed"
            /\ UNCHANGED << grants, family_grants, resources >>
       ELSE LET fam == IF FAMILY_FILE \in DOMAIN disk THEN disk[FAMILY_FILE] ELSE <<>>
                merged == [k \in 1..Len(fam) |-> Backfill(fam[k])]
            IN  /\ family_grants' = merged
                /\ resources' = IF RESOURCES_FILE \in DOMAIN disk
                                THEN disk[RESOURCES_FILE] ELSE <<>>
                /\ grants' = disk[INPUT_FILE] \o merged
                /\ pc' = "filter"
                /\ err' = err
    /\ UNCHANGED << text, published >>
    /\ UNCHANGED << prog, disk, pages, i, slug_counts, grant_slugs,
                    enriched, success, log >>

\* open(INPUT_FILE) and the two optional files, then the merge
Load ==
    /\ prog = "build" /\ pc = "start"
    /\ IF INPUT_FILE \notin DOMAIN disk
       THEN /\ err' = "FileNotFoundError"
            /\ pc' = "failed"
            /\ UNCHANGED << grants, family_grants, resources >>
       ELSE LET fam == IF FAMILY_FILE \in DOMAIN disk THEN disk[FAMILY_FILE] ELSE <<>>
                merged == [k \in 1..Len(fam) |-> Backfill(fam[k])]
            IN  /\ family_grants' = merged
                /\ resources' = IF RESOURCES_FILE \in DOMAIN disk
                                THEN disk[RESOURCES_FILE] ELSE <<>>
                /\ grants' = disk[INPUT_FILE] \o merged
                /\ pc' = "filter"
                /\ err' = err
    /\ UNCHANGED << text, published >>
    /\ UNCHANGED << prog, disk, pages, dirs, i, slug_counts, grant_slugs,
                    enriched, success, log >>

FilterJunk ==
    /\ prog = "build" /\ pc = "filter"
    /\ grants' = filter_junk(grants)
    /\ pc' = "dedupe"
    /\ UNCHANGED << text, published >>
    /\ UNCHANGED << prog, disk, pages, dirs, family_grants, resources, i,
                    slug_counts, grant_slugs, enriched, success, log, err >>

Dedupe ==
    /\ prog = "build" /\ pc = "dedupe"
    /\ grants' = dedupe_grants(grants)
    /\ pc' = "sort"
    /\ UNCHANGED << text, published >>
    /\ UNCHANGED << prog, disk, pages, dirs, family_grants, resources, i,
                    slug_counts, grant_slugs, enriched, success, log, err >>

Sort ==
    /\ prog = "build" /\ pc = "sort"
    /\ grants' = sort_grants(grants)
    /\ pc' = "makedirs"
    /\ UNCHANGED << text, published >>
    /\ UNCHANGED << prog, disk, pages, dirs, family_grants, resources, i,
                    slug_counts, grant_slugs, enriched, success, log, err >>

MakeDirs ==
    /\ prog = "build" /\ pc = "makedirs"
    /\ dirs' = dirs \cup {"grants"}
    /\ i' = 1
    /\ pc' = IF grants = <<>> THEN "index" ELSE "slugs"
    /\ UNCHANGED << text, published >>
    /\ UNCHANGED << prog, disk, pages, grants, family_grants, resources,
                    slug_counts, grant_slugs, enriched, success, log, err >>

\* NextSlug that never appends a counter
NextSlug_Bare(counts, base_slug) == base_slug

\* NextSlug with the counter read before its increment
NextSlug_OldCount(counts, base_slug) ==
    IF base_slug \in DOMAIN counts
    THEN base_slug \o <<"-">> \o IntToStr(counts[base_slug])
    ELSE base_slug

\* the slug of a record whose title slugifies to base_slug, and the counters
\* after it
NextSlug(counts, base_slug) ==
    IF base_slug \in DOMAIN counts
    THEN base_slug \o <<"-">> \o IntToStr(counts[base_slug] + 1)
    ELSE base_slug

NextCounts(counts, base_slug) ==
    IF base_slug \in DOMAIN counts
    THEN [counts EXCEPT ![base_slug] = @ + 1]
    ELSE (base_slug :> 0) @@ counts

\* one turn of "for g in grants" of the slug generation
AssignSlug ==
    /\ prog = "build" /\ pc = "slugs" /\ i <= Len(grants)
    /\ LET base_slug == slugify(grants[i]["title"])
       IN  /\ slug_counts' = NextCounts(slug_counts, base_slug)
           /\ grant_slugs' = Append(grant_slugs, NextSlug(slug_counts, base_slug))
    /\ i' = IF i = Len(grants) THEN 1 ELSE i + 1
    /\ pc' = IF i = Len(grants) THEN "pages" ELSE "slugs"
    /\ UNCHANGED << text, published >>
    /\ UNCHANGED << prog, disk, pages, dirs, grants, family_grants, resources,
                    enriched, success, log, err >>

\* one turn of "for grant, slug in zip(grants, grant_slugs)"
WritePage ==
    /\ prog = "build" /\ pc = "pages" /\ i <= Len(grants)
    /\ LET page == build_grant_page(grants[i], grant_slugs[i])
       IN  IF page.err # ""
           THEN /\ err' = page.err
                /\ pc' = "failed"
                /\ UNCHANGED << pages, i >>
           ELSE /\ pages' = (grant_slugs[i] :> page.val) @@ pages
                /\ i' = IF i = Len(grants) THEN 1 ELSE i + 1
                /\ pc' = IF i = Len(grants) THEN "index" ELSE "pages"
                /\ err' = err
    /\ UNCHANGED << text, published >>
    /\ UNCHANGED << prog, disk, dirs, grants, family_grants, resources,
                    slug_counts, grant_slugs, enriched, success, log >>

WriteIndex ==
    /\ prog = "build" /\ pc = "index"
    /\ LET index_html == build_index(grants, grant_slugs)
       IN  IF index_html.err # ""
           THEN /\ err' = index_html.err
                /\ pc' = "failed"
                /\ disk' = disk
           ELSE /\ disk' = ("index.html" :> index_html.val) @@ disk
                /\ pc' = "sitemap"
                /\ err' = err
    /\ UNCHANGED << text, published >>
    /\ UNCHANGED << prog, pages, dirs, grants, family_grants, resources, i,
                    slug_counts, grant_slugs, enriched, success, log >>

WriteSitemap ==
    /\ prog = "build" /\ pc = "sitemap"
    /\ disk' = ("sitemap.xml" :> build_sitemap(grant_slugs)) @@ disk
    /\ pc' = "robots"
    /\ UNCHANGED << text, published >>
    /\ UNCHANGED << prog, pages, dirs, grants, family_grants, resources, i,
                    slug_counts, grant_slugs, enriched, success, log, err >>

WriteRobots ==
    /\ prog = "build" /\ pc = "robots"
    /\ disk' = ("robots.txt" :> build_robots) @@ disk
    /\ pc' = "resources"
    /\ UNCHANGED << text, published >>
    /\ UNCHANGED << prog, pages, dirs, grants, family_grants, resources, i,
                    slug_counts, grant_slugs, enriched, success, log, err >>

\* "if resources:" and the end of build()
WriteResources ==
    /\ prog = "build" /\ pc = "resources"
    /\ LET resources_html == build_resources_page(resources)
       IN  IF resources = <<>>
           THEN /\ disk' = disk
                /\ pc' = "done"
                /\ err' = err
           ELSE IF resources_html.err # ""
           THEN /\ disk' = disk
                /\ pc' = "failed"
                /\ err' = resources_html.err
           ELSE /\ disk' = ("resources.html" :> resources_html.val) @@ disk
                /\ pc' = "done"
                /\ err' = err
    /\ UNCHANGED << text, published >>
    /\ UNCHANGED << prog, pages, dirs, grants, family_grants, resources, i,
                    slug_counts, grant_slugs, enriched, success, log >>

Next ==
    \/ Load
    \/ FilterJunk
    \/ Dedupe
    \/ Sort
    \/ MakeDirs
    \/ AssignSlug
    \/ WritePage
    \/ WriteIndex
    \/ WriteSitemap
    \/ WriteRobots
    \/ WriteResources

Spec == Init /\ [][Next]_vars

-----------------------------------------------------------------------------
(* enricher.py: enrich() and scraper_v2.py: enrich()                       *)

OUTPUT_FILE == "data/grants_enriched.json"

InitEnrich ==
    /\ prog \in {"enricher", "scraper_v2"}
    /\ \E gd \in {{}} \cup {{l} : l \in SeqsUpTo(RawRecords, MaxRaw)} :
            disk = MkDisk((INPUT_DATA :> gd))
    /\ InitLocals

\* "if not os.path.exists(INPUT_FILE): return", else json.load
EnrichLoad ==
    /\ prog \in {"enricher", "scraper_v2"} /\ pc = "start"
    /\ IF INPUT_DATA \notin DOMAIN disk
       THEN /\ pc' = "done"
            /\ grants' = grants
       ELSE /\ grants' = disk[INPUT_DATA]
            /\ pc' = IF disk[INPUT_DATA] = <<>> THEN "save" ELSE "loop"
    /\ UNCHANGED << text, published >>
    /\ UNCHANGED << prog, disk, pages, dirs, family_grants, resources, i,
                    slug_counts, grant_slugs, enriched, success, log, err >>

\* EnricherStep that appends nothing for a status other than 200
EnricherStep_SkipsNon200 ==
    /\ prog = "enricher" /\ pc = "loop" /\ i <= Len(grants)
    /\ \E fetch \in Fetches :
        LET grant == enricher_record(grants[i], fetch)
            line == enricher_log(grants[i], fetch)
        IN  /\ grants' = [grants EXCEPT ![i] = grant]
            /\ enriched' = IF line = "HTTP" THEN enriched ELSE Append(enriched, grant)
            /\ log' = Append(log, line)
            /\ success' = IF line = "OK" THEN success + 1 ELSE success
    /\ i' = i + 1
    /\ pc' = IF i = Len(grants) THEN "save" ELSE "loop"
    /\ UNCHANGED << text, published >>
    /\ UNCHANGED << prog, disk, pages, dirs, family_grants, resources,
                    slug_counts, grant_slugs, err >>

\* enricher.py: one turn of "for i, grant in enumerate(grants)"
EnricherStep ==
    /\ prog = "enricher" /\ pc = "loop" /\ i <= Len(grants)
    /\ \E fetch \in Fetches :
        LET grant == enricher_record(grants[i], fetch)
            line == enricher_log(grants[i], fetch)
        IN  /\ grants' = [grants EXCEPT ![i] = grant]
            /\ enriched' = Append(enriched, grant)
            /\ log' = Append(log, line)
            /\ success' = IF line = "OK" THEN success + 1 ELSE success
    /\ i' = i + 1
    /\ pc' = IF i = Len(grants) THEN "save" ELSE "loop"
    /\ UNCHANGED << text, published >>
    /\ UNCHANGED << prog, disk, pages, dirs, family_grants, resources,
                    slug_counts, grant_slugs, err >>

\* scraper_v2.py: one turn of "for i, grant in enumerate(grants)"
ScraperV2Step ==
    /\ prog = "scraper_v2" /\ pc = "loop" /\ i <= Len(grants)
    /\ \E fetch \in Fetches, post \in Posts :
        LET grant == scraper_v2_record(grants[i], fetch, post)
        IN  /\ grants' = [grants EXCEPT ![i] = grant]
            /\ enriched' = Append(enriched, grant)
            /\ log' = Append(log, scraper_v2_log(grants[i], fetch, post))
    /\ i' = i + 1
    /\ pc' = IF i = Len(grants) THEN "save" ELSE "loop"
    /\ UNCHANGED << text, published >>
    /\ UNCHANGED << prog, disk, pages, dirs, family_grants, resources,
                    slug_counts, grant_slugs, success, err >>

\* os.makedirs (enricher.py only) and json.dump
EnrichSave ==
    /\ prog \in {"enricher", "scraper_v2"} /\ pc = "save"
    /\ dirs' = IF prog = "enricher" THEN dirs \cup {"data"} ELSE dirs
    /\ disk' = (OUTPUT_FILE :> enriched) @@ disk
    /\ pc' = "done"
    /\ UNCHANGED << text, published >>
    /\ UNCHANGED << prog, pages, grants, family_grants, resources, i,
                    slug_counts, grant_slugs, enriched, success, log, err >>

NextEnrich ==
    \/ EnrichLoad
    \/ EnricherStep
    \/ ScraperV2Step
    \/ EnrichSave

SpecEnrich == InitEnrich /\ [][NextEnrich]_vars

-----------------------------------------------------------------------------
(* An enrichment run on a short list: what one turn of the loop does to    *)
(* one record                                                              *)

\* the longest data/grants_data.json list of such a run
MaxShort == 1

InitShort ==
    /\ prog \in {"enricher", "scraper_v2"}
    /\ \E gd \in {{}} \cup {{l} : l \in SeqsUpTo(RawRecords, MaxShort)} :
            disk = MkDisk((INPUT_DATA :> gd))
    /\ InitLocals

SpecShort == InitShort /\ [][NextEnrich]_vars

-----------------------------------------------------------------------------
(* enricher.py on the text of the pages: the fields of a record are what   *)
(* extract_deadline and extract_amount find in clean_text(soup)            *)

\* the number of fragments of the longest text
MaxFrags == 2

\* what the texts about deadlines are made of
DeadlineFrags ==
    { <<"D","e","a","d","l","i","n","e",":"," ","M","a","r","c","h"," ","3",","," ","2","0","2","6">>, <<"D","u","e",":"," ","J","a","n","u","a","r","y"," ","5",","," ","2","0","2","5","."," ">>,
      <<"D","u","e"," ","0","3","/","0","4","/","2","0","2","6"," ">>, <<"d","e","a","d","l","i","n","e"," ","2","0","2","6","-","0","3","-","0","4"," ">>,
      <<"S","u","b","m","i","t"," ","b","y"," ">>, <<"M","a","y"," ","1",","," ","2","0","2","6">>,
      <<"r","o","l","l","i","n","g">>, <<"O","p","e","n">>, <<"s">>, <<" ">>, <<"\n">> }

\* what the texts about amounts are made of
AmountFrags ==
    { <<"$","1",",","0","0","0"," ">>, <<"$","2","5",",","0","0","0"," ">>, <<"$","1","0","0","0"," ">>, <<"$","5","0","0"," ">>, <<"$","0"," ">>, <<"$">>, <<"u","p"," ","t","o"," ">> }

RECURSIVE Concat(_)
\* ''.join(parts)
Concat(parts) ==
    IF parts = <<>> THEN <<>> ELSE Head(parts) \o Concat(Tail(parts))

Texts ==
    {Concat(parts) : parts \in SeqsUpTo(DeadlineFrags, MaxFrags)}
    \cup {Concat(parts) : parts \in SeqsUpTo(AmountFrags, MaxFrags)}

InitExtract ==
    /\ prog = "enricher"
    /\ disk = MkDisk((INPUT_DATA :> {<<RawA>>}))
    /\ InitLocals

\* enricher.py: one turn of the loop on a page answered with status 200,
\* from the text of the page
ExtractStep ==
    /\ prog = "enricher" /\ pc = "loop" /\ i <= Len(grants)
    /\ \E t \in Texts, s \in {None, Str(<<"A","b","o","u","t",".">>)} :
        LET fetch == Response(200, extract_deadline(t), extract_amount(t), None, s)
            grant == enricher_record(grants[i], fetch)
            line == enricher_log(grants[i], fetch)
        IN  /\ text' = t
            /\ grants' = [grants EXCEPT ![i] = grant]
            /\ enriched' = Append(enriched, grant)
            /\ log' = Append(log, line)
            /\ success' = IF line = "OK" THEN success + 1 ELSE success
    /\ i' = i + 1
    /\ pc' = IF i = Len(grants) THEN "save" ELSE "loop"
    /\ UNCHANGED published
    /\ UNCHANGED << prog, disk, pages, dirs, family_grants, resources,
                    slug_counts, grant_slugs, err >>

NextExtract ==
    \/ EnrichLoad
    \/ ExtractStep
    \/ EnrichSave

SpecExtract == InitExtract /\ [][NextExtract]_vars


-----------------------------------------------------------------------------
(* build.py: build() on records that differ by one field                   *)

\* the longest data/grants_enriched.json list of these builds
MaxFields == 2

\* denylist titles as a source page can case them, and a title that only
\* begins with one
RecJU == enricher_record(Raw(<<"O","T">>, <<"A","O","T","F">>, <<"A","P","P","L","Y"," ","N","O","W">>, <<"h","t","t","p","s",":","/","/","b",".","o","r","g","/","n">>), FetchRaises)

RecJX ==
    enricher_record(Raw(<<"O","T">>, <<"A","O","T","F">>, <<"A","p","p","l","y"," ","N","o","w"," ","f","o","r"," ","t","h","e"," ","X","Y","Z"," ","A","w","a","r","d">>,
                        <<"h","t","t","p","s",":","/","/","b",".","o","r","g","/","x">>), FetchRaises)

\* a page with a description on which no deadline, amount or eligibility
\* is found
RecP ==
    enricher_record(Raw(<<"P","T">>, <<"F","4","P","T">>, <<"S","u","m","m","e","r"," ","F","u","n","d">>, <<"h","t","t","p","s",":","/","/","a",".","o","r","g","/","s">>),
                    Response(200, None, None, None, Str(<<"A","b","o","u","t",".">>)))

\* a page whose only dollar figure is $0
RecZ ==
    enricher_record(Raw(<<"O","T">>, <<"A","O","T","F">>, <<"O","p","e","n"," ","A","w","a","r","d">>, <<"h","t","t","p","s",":","/","/","b",".","o","r","g","/","o">>),
                    Response(200, extract_deadline(<<"$","0"," ">>), extract_amount(<<"$","0"," ">>),
                             None, Str(<<"A","b","o","u","t",".">>)))

\* hand-written records whose amount is the number 0 and the empty string
RecI0 ==
    [niche |-> <<"P","T">>, source |-> <<"A","O","T","F">>, title |-> <<"T","r","a","v","e","l"," ","F","u","n","d">>,
     link |-> <<"h","t","t","p","s",":","/","/","b",".","o","r","g","/","t">>, amount |-> IntV(0)]

RecE0 ==
    [niche |-> <<"P","T">>, source |-> <<"A","O","T","F">>, title |-> <<"B","o","o","k"," ","F","u","n","d">>,
     link |-> <<"h","t","t","p","s",":","/","/","b",".","o","r","g","/","k">>, amount |-> Str(<<>>)]

InitFields ==
    /\ prog = "build"
    /\ \E ge \in {{l} : l \in SeqsUpTo({RecA, RecJ, RecJU, RecJX, RecS, RecP, RecZ,
                                        RecI0, RecE0}, MaxFields)},
          fa \in {{}} \cup {{l} : l \in FamilyFiles},
          re \in {{}} \cup {{l} : l \in ResourceFiles} :
            disk = MkDisk((INPUT_FILE :> ge) @@ (FAMILY_FILE :> fa)
                          @@ (RESOURCES_FILE :> re))
    /\ InitLocals

SpecFields == InitFields /\ [][Next]_vars

-----------------------------------------------------------------------------
(* The three stages, each run on a directory that may lack its input and   *)
(* may hold the files of earlier runs                                      *)

\* the longest input list of these runs
MaxStage == 1

InitStages ==
    /\ prog \in {"build", "enricher", "scraper_v2"}
    /\ \E gd \in {{}} \cup {{l} : l \in SeqsUpTo({RawA}, MaxStage)},
          ge \in {{}} \cup {{l} : l \in SeqsUpTo({RecA, RecP}, MaxStage)},
          re \in {{}} \cup {{l} : l \in ResourceFiles},
          ix \in {{}, {build_index(<<>>, <<>>).val}} :    \* left by an earlier build
            disk = MkDisk((INPUT_DATA :> gd) @@ (INPUT_FILE :> ge)
                          @@ (RESOURCES_FILE :> re) @@ ("index.html" :> ix))
    /\ InitLocals

SpecStages == InitStages /\ [][Next \/ NextEnrich]_vars

-----------------------------------------------------------------------------
(* build.py: build() run a second time, after the input file has gained or *)
(* lost one record                                                         *)

\* the longest data/grants_enriched.json list of the first build
MaxRebuild == 2

RebuildRecords == {RecA, RecA2, RecP}

InitRebuild ==
    /\ prog = "build"
    /\ \E l \in SeqsUpTo(RebuildRecords, MaxRebuild) :
            disk = MkDisk((INPUT_FILE :> {l}))
    /\ InitLocals

\* l without its element p
RemoveAt(l, p) == SubSeq(l, 1, p - 1) \o SubSeq(l, p + 1, Len(l))

\* the input file with one record more or one record less
Edits(l) ==
    {SubSeq(l, 1, p - 1) \o <<g>> \o SubSeq(l, p, Len(l)) :
        p \in 1..(Len(l) + 1), g \in RebuildRecords}
    \cup {RemoveAt(l, p) : p \in 1..Len(l)}

\* build() has returned; the input file is edited and build() is called
\* again, on the directory the first build left
Rebuild ==
    /\ prog = "build" /\ pc = "done" /\ published = NotYet
    /\ published' = [kind |-> "build", input |-> disk[INPUT_FILE],
                     grants |-> grants, slugs |-> grant_slugs]
    /\ \E l \in Edits(disk[INPUT_FILE]) :
            disk' = [disk EXCEPT ![INPUT_FILE] = l]
    /\ pc' = "start"
    /\ grants' = <<>>
    /\ family_grants' = <<>>
    /\ resources' = <<>>
    /\ i' = 1
    /\ slug_counts' = EmptyDict
    /\ grant_slugs' = <<>>
    /\ UNCHANGED << prog, pages, dirs, enriched, success, log, err, text >>

SpecRebuild == InitRebuild /\ [][Next \/ Rebuild]_vars

-----------------------------------------------------------------------------
(* build.py: build() on titles that reach the cut of slugify               *)

\* the longest data/grants_enriched.json list of these builds
MaxSlugs == 2

\* a link text of 85 characters, whose slug is cut inside a run of letters
RecL1 ==
    enricher_record(Raw(<<"P","T">>, <<"F","4","P","T">>, <<"F","u","n","d"," ">> \o [k \in 1..SlugMax |-> "a"],
                        <<"h","t","t","p","s",":","/","/","a",".","o","r","g","/","l">>), PageFound)

\* the same link text on the page of another source
RecL2 == [RecL1 EXCEPT !["source"] = <<"A","O","T","F">>, !["link"] = <<"h","t","t","p","s",":","/","/","b",".","o","r","g","/","l">>]

\* a link text of 84 characters, whose character SlugMax is a space
RecCut ==
    enricher_record(Raw(<<"O","T">>, <<"A","O","T","F">>,
                        <<"G","r","a","n","t"," ">> \o [k \in 1..(SlugMax - 7) |-> "b"] \o <<" ","2","0","2","6">>,
                        <<"h","t","t","p","s",":","/","/","b",".","o","r","g","/","c">>), PageFound)

\* a hand-written record whose title has no letter and no digit
RecBang ==
    [niche |-> <<"P","T">>, source |-> <<"A","O","T","F">>, title |-> <<"!","!","!","!","!">>,
     link |-> <<"h","t","t","p","s",":","/","/","b",".","o","r","g","/","b">>]

InitSlugs ==
    /\ prog = "build"
    /\ \E l \in SeqsUpTo({RecA, RecA2, RecL1, RecL2, RecCut, RecBang}, MaxSlugs) :
            disk = MkDisk((INPUT_FILE :> {l}))
    /\ InitLocals

SpecSlugs == InitSlugs /\ [][Next]_vars
-----------------------------------------------------------------------------
(* Properties of build()                                                   *)

\* build() is past the sort: grants is the list the slug assignment and the
\* renderer consume
Curated ==
    /\ prog = "build"
    /\ pc \in {"makedirs", "slugs", "pages", "index", "sitemap", "robots",
               "resources", "done"}

\* C1: the slugs assigned in one build are pairwise distinct, so that no two
\* records are written to the same grants/<slug>.html
C1_SlugsDistinct ==
    /\ \A a, b \in 1..Len(grant_slugs) :
            a # b => grant_slugs[a] # grant_slugs[b]
    /\ (prog = "build" /\ pc \in {"index", "sitemap", "robots", "resources", "done"})
            => Cardinality(DOMAIN pages) = Len(grants)

\* a record as enricher.py writes it: the five keys of the scraper, and
\* either no enrichment key or all of them, each extracted field None or a
\* string
IsEnricherOutput(g) ==
    /\ {"niche", "source", "title", "link", "found_at"} \subseteq DOMAIN g
    /\ \/ DOMAIN g = {"niche", "source", "title", "link", "found_at"}
       \/ /\ DOMAIN g = {"niche", "source", "title", "link", "found_at",
                         "deadline", "amount", "eligibility", "summary",
                         "enriched_at"}
          /\ \A f \in {"deadline", "amount", "eligibility", "summary"} :
                g[f].t \in {"none", "str"}

\* C2: build() does not fail while it renders a record that enricher.py
\* wrote, whichever of its optional fields are missing or None
C2_RenderNeverFails ==
    (prog = "build" /\ pc = "failed" /\ err # "FileNotFoundError")
        => ~IsEnricherOutput(grants[i])

\* the key as the specification words it: lowercased, trimmed title, "|", source or ''
C3_Key(g) ==
    strip(lower(g["title"])) \o <<"|">>
    \o (IF "source" \in DOMAIN g THEN g["source"] ELSE <<>>)

\* the indices of the first record of every key
C3_Firsts(in) ==
    {k \in 1..Len(in) : \A j \in 1..(k - 1) : C3_Key(in[j]) # C3_Key(in[k])}

\* out is in restricted to the indices of S, in order
IsSubSeqAt(out, in, S) ==
    /\ Len(out) = Cardinality(S)
    /\ \A n \in 1..Len(out) :
        \E k \in S : /\ out[n] = in[k]
                     /\ Cardinality({j \in S : j < k}) = n - 1

\* C3: dedupe_grants keeps exactly the first record of every key, in input
\* order, and no two survivors share a (lowercased-trimmed title, source)
C3_DedupeKeepsFirst ==
    [][ (prog = "build" /\ pc = "dedupe") =>
            /\ IsSubSeqAt(grants', grants, C3_Firsts(grants))
            /\ \A a, b \in 1..Len(grants') :
                    ( /\ strip(lower(grants'[a]["title"])) = strip(lower(grants'[b]["title"]))
                      /\ Get(grants'[a], "source", <<>>) = Get(grants'[b], "source", <<>>) )
                    => a = b
      ]_vars

\* a duplicate in second place was dropped, the first and the last kept
C3_Witness ==
    /\ prog = "build" /\ pc = "sort"
    /\ disk[INPUT_FILE] = <<RecD, RecA, RecB>>
    /\ FAMILY_FILE \notin DOMAIN disk
    /\ grants = <<RecD, RecB>>

\* C4: after the curation pipeline every record has a non-empty title and a
\* non-empty link
C4_TitleAndLinkNonEmpty ==
    Curated =>
        \A k \in 1..Len(grants) :
            /\ grants[k]["title"] # <<>>
            /\ "link" \in DOMAIN grants[k]
            /\ grants[k]["link"] # <<>>

\* the three records of the example: A is RecA (PT, amount "5,000"), B is
\* RecB (OT, amount None), C is RecC (PT, no amount key)
C5_IsABC == Len(grants) = 3 /\ {grants[k] : k \in 1..3} = {RecA, RecB, RecC}

\* C5 as stated: the sorted order of A, B, C is A, C, B
C5_OrderACB ==
    (prog = "build" /\ pc = "makedirs" /\ C5_IsABC)
        => grants = <<RecA, RecC, RecB>>

\* C5 amended: the sorted order of A, B, C is A, B, C, whatever the order
\* of the input
C5_OrderABC ==
    (prog = "build" /\ pc = "makedirs" /\ C5_IsABC)
        => grants = <<RecA, RecB, RecC>>

C5_Witness ==
    /\ prog = "build" /\ pc = "makedirs"
    /\ disk[INPUT_FILE] = <<RecC, RecB, RecA>>
    /\ grants = <<RecA, RecB, RecC>>

\* the sort key as the specification words it
C6_Key(g) ==
    << IF "amount" \in DOMAIN g /\ Truthy(g["amount"]) THEN 0 ELSE 1,
       IF "niche" \in DOMAIN g THEN g["niche"] ELSE <<"Z","Z","Z">>,
       g["title"] >>

\* k1 <= k2, lexicographic
C6_KeyLE(k1, k2) ==
    \/ k1[1] < k2[1]
    \/ k1[1] = k2[1] /\ StrLT(k1[2], k2[2])
    \/ k1[1] = k2[1] /\ k1[2] = k2[2] /\ (k1[3] = k2[3] \/ StrLT(k1[3], k2[3]))

\* the place of record g in the list in, whose records are distinct
C6_Place(in, g) == CHOOSE k \in 1..Len(in) : in[k] = g

\* C6: the sort of build() is the stable ascending sort by (0 if amount
\* else 1, niche or "ZZZ", title): the records with an amount come first,
\* each group is ordered by niche then title, and records of equal keys
\* keep the order they had after dedup
C6_StableSort ==
    [][ (prog = "build" /\ pc = "sort") =>
            /\ Len(grants') = Len(grants)
            /\ \A k \in 1..Len(grants) : \E n \in 1..Len(grants') : grants'[n] = grants[k]
            /\ \A a, b \in 1..Len(grants') :
                a < b =>
                    /\ C6_KeyLE(C6_Key(grants'[a]), C6_Key(grants'[b]))
                    /\ (Truthy(Get(grants'[b], "amount", None))
                            => Truthy(Get(grants'[a], "amount", None)))
                    /\ C6_Key(grants'[a]) = C6_Key(grants'[b])
                            => C6_Place(grants, grants'[a]) < C6_Place(grants, grants'[b])
      ]_vars

\* two records of equal keys, the second of the input first, and a record
\* without amount that was first in the input
C6_Witness ==
    /\ prog = "build" /\ pc = "makedirs"
    /\ disk[INPUT_FILE] = <<RecC, RecA2, RecA>>
    /\ grants = <<RecA2, RecA, RecC>>

\* the number of records before the k-th whose title slugifies as its title
C7_Earlier(k) ==
    Cardinality({j \in 1..(k - 1) :
                    slugify(grants[j]["title"]) = slugify(grants[k]["title"])})

\* C7: the first record of a base identifier b receives b, the k-th record
\* of the same base receives b-(k-1): every step of the slug assignment
\* appends that slug for the record it is at, and no other step changes the
\* slugs or the records they were assigned to
C7_SlugSuffix ==
    [][ IF prog = "build" /\ pc = "slugs"
        THEN /\ grants' = grants
             /\ grant_slugs' = Append(grant_slugs,
                    IF C7_Earlier(i) = 0 THEN slugify(grants[i]["title"])
                    ELSE slugify(grants[i]["title"]) \o <<"-">>
                            \o IntToStr(C7_Earlier(i)))
             /\ Len(grant_slugs) = i - 1
        ELSE (prog = "build" /\ grant_slugs # <<>>) =>
                (grants' = grants /\ grant_slugs' = grant_slugs) ]_vars

\* three records of the base "a-grant"
C7_Witness ==
    /\ prog = "build" /\ pc = "pages"
    /\ grant_slugs = << <<"a","-","g","r","a","n","t">>, <<"a","-","g","r","a","n","t","-","1">>, <<"a","-","g","r","a","n","t","-","2">> >>

\* the number of <url> entries of the sitemap with this <loc>
C8_Count(loc) ==
    Cardinality({k \in 1..Len(disk["sitemap.xml"]) : disk["sitemap.xml"][k] = loc})

\* C8: the sitemap has one entry per rendered record, one for the home page,
\* and one for the resources page only if this build wrote resources.html
C8_SitemapEntries ==
    (prog = "build" /\ pc = "done") =>
        /\ C8_Count(SITE_URL \o <<"/">>) = 1
        /\ C8_Count(SITE_URL \o <<"/","r","e","s","o","u","r","c","e","s",".","h","t","m","l">>)
                = (IF "resources.html" \in DOMAIN disk THEN 1 ELSE 0)
        /\ Len(disk["sitemap.xml"])
                = Len(grants) + 1 + (IF "resources.html" \in DOMAIN disk THEN 1 ELSE 0)

-----------------------------------------------------------------------------
(* Properties of the enrichment runs                                       *)

\* what identifies a record: the keys no enrichment writes
C9_Identity(g) ==
    [k \in DOMAIN g \ {"deadline", "amount", "eligibility", "summary",
                       "tldr", "enriched_at"} |-> g[k]]

\* C9: no outcome of a fetch or of a model call ends an enrichment run; the
\* run goes on to its end and writes a list that holds every input record
\* once, in input order
C9_EnrichNeverFatal ==
    (prog \in {"enricher", "scraper_v2"}) =>
        /\ err = "" /\ pc # "failed"
        /\ pc # "done" => ENABLED NextEnrich
        /\ (pc = "done" /\ INPUT_DATA \in DOMAIN disk) =>
            /\ OUTPUT_FILE \in DOMAIN disk
            /\ Len(disk[OUTPUT_FILE]) = Len(disk[INPUT_DATA])
            /\ \A k \in 1..Len(disk[INPUT_DATA]) :
                C9_Identity(disk[OUTPUT_FILE][k]) = C9_Identity(disk[INPUT_DATA][k])

\* a run of enricher.py with a failed fetch and a non-200 answer
C9_Witness ==
    /\ prog = "enricher" /\ pc = "done"
    /\ OUTPUT_FILE \in DOMAIN disk
    /\ Len(disk[OUTPUT_FILE]) = 2
    /\ log = <<"Error", "HTTP">>

\* C10: in enricher.py a record whose fetch raised or was answered with a
\* status other than 200 is appended with deadline, amount, eligibility,
\* summary and enriched_at as they were
C10_FailedFetchKeepsFields ==
    (prog = "enricher") =>
        \A k \in 1..Len(enriched) :
            log[k] \in {"Error", "HTTP"} =>
                \A f \in {"deadline", "amount", "eligibility", "summary", "enriched_at"} :
                    /\ (f \in DOMAIN enriched[k]) = (f \in DOMAIN disk[INPUT_DATA][k])
                    /\ f \in DOMAIN enriched[k] => enriched[k][f] = disk[INPUT_DATA][k][f]

\* a record enriched by a former run met a 404, a scraped one an exception
C10_Witness ==
    /\ prog = "enricher" /\ pc = "save"
    /\ disk[INPUT_DATA] = <<RecA2, RawB>>
    /\ log = <<"HTTP", "Error">>
    /\ enriched = <<RecA2, RawB>>

-----------------------------------------------------------------------------
(* Properties of scraper_v2.py                                             *)

\* the last record of a non-empty list
Last(s) == s[Len(s)]

\* field f is in g2 what it is in g1: missing in both, or of one value
SameField(g1, g2, f) ==
    /\ (f \in DOMAIN g1) = (f \in DOMAIN g2)
    /\ f \in DOMAIN g1 => g1[f] = g2[f]

\* C11: in scraper_v2.py a record whose detail page was answered with a
\* status other than 200 is appended with deadline, amount, eligibility and
\* tldr as they were: every turn of the loop that such an answer explains
\* leaves the four fields alone
C11_Non200LeavesFields ==
    [][ (prog = "scraper_v2" /\ pc = "loop") =>
            \A fetch \in Fetches, post \in Posts :
                ( /\ fetch.kind = "resp" /\ fetch.status # 200
                  /\ enriched' = Append(enriched,
                                        scraper_v2_record(grants[i], fetch, post)) )
                => \A f \in {"deadline", "amount", "eligibility", "tldr"} :
                        SameField(grants[i], Last(enriched'), f)
      ]_vars

\* the model call failed: requests.post raised, the status is not 200, or
\* the body does not decode
C12_CallFails(post) ==
    post.kind = "raise" \/ post.status # 200 \/ ~post.decodes

\* C12: in scraper_v2.py a deadline (an amount) that the regex scan found is
\* the deadline (the amount) of the record whatever the model returned, and
\* after a failed model call the record has the regex values and the
\* default tldr
C12_RegexWins ==
    [][ (prog = "scraper_v2" /\ pc = "loop") =>
            \A fetch \in Fetches, post \in Posts :
                ( /\ fetch.kind = "resp" /\ "link" \in DOMAIN grants[i]
                  /\ enriched' = Append(enriched,
                                        scraper_v2_record(grants[i], fetch, post)) )
                => LET g == Last(enriched')
                   IN  /\ fetch.deadline # None => g["deadline"] = fetch.deadline
                       /\ fetch.amount # None => g["amount"] = fetch.amount
                       /\ C12_CallFails(post) =>
                            /\ g["deadline"] = fetch.deadline
                            /\ g["amount"] = fetch.amount
                            /\ g["tldr"] = Str(<<"D","e","t","a","i","l","s"," ","i","n","s","i","d","e",".">>)
      ]_vars

\* the regex scan found the deadline and no amount; the model answered with
\* another deadline, an amount and a tldr
C12_Witness ==
    /\ prog = "scraper_v2" /\ pc = "save"
    /\ disk[INPUT_DATA] = <<RawA>>
    /\ Len(enriched) = 1
    /\ {"deadline", "amount", "tldr"} \subseteq DOMAIN enriched[1]
    /\ enriched[1]["deadline"] = Str(<<"M","a","r","c","h"," ","3",","," ","2","0","2","6">>)
    /\ enriched[1]["amount"] = AiFull.d["amount"]
    /\ enriched[1]["tldr"] = AiFull.d["tldr"]
    /\ AiFull.d["deadline"] # Str(<<"M","a","r","c","h"," ","3",","," ","2","0","2","6">>)

-----------------------------------------------------------------------------
(* Properties of the extraction functions of enricher.py                   *)

\* the record of the run has been through the loop: text is the text of its
\* page and its fields are what the extraction found
Extracted ==
    /\ prog = "enricher" /\ pc \in {"save", "done"}
    /\ Len(enriched) = 1

\* sub occurs in s
Contains(s, sub) ==
    \E p \in 1..(Len(s) - Len(sub) + 1) : SubSeq(s, p, p + Len(sub) - 1) = sub

RECURSIVE C15_TokenEnd(_, _)
\* the position after the digits and the groups of a comma and three digits
\* that follow q
C15_TokenEnd(s, q) ==
    IF q <= Len(s) /\ s[q] \in {"0", "1", "2", "3", "4", "5", "6", "7", "8", "9"}
    THEN C15_TokenEnd(s, q + 1)
    ELSE IF /\ q + 3 <= Len(s) /\ s[q] = ","
            /\ \A k \in 1..3 : s[q + k] \in {"0", "1", "2", "3", "4", "5", "6", "7", "8", "9"}
         THEN C15_TokenEnd(s, q + 4)
         ELSE q

\* the values of the dollar-amount tokens of s: a "$", digits, and groups of
\* digits that commas may separate
C15_Values(s) ==
    { StrToInt(RemoveChar(SubSeq(s, p + 1, C15_TokenEnd(s, p + 1) - 1), ",")) :
        p \in {p \in 1..(Len(s) - 1) :
                    s[p] = "$" /\ s[p + 1] \in {"0", "1", "2", "3", "4", "5", "6", "7", "8", "9"}} }

\* C15: extract_amount returns None exactly when the text has no
\* dollar-amount token, and else the largest value of its tokens, with
\* commas, in whatever order the tokens come
C15_AmountIsMax ==
    Extracted =>
        /\ (C15_Values(text) = {}) <=> (enriched[1]["amount"] = None)
        /\ C15_Values(text) # {} =>
                enriched[1]["amount"] = Str(FormatCommas(MaxOf(C15_Values(text))))

\* C16: a text that holds "Deadline: March 3, 2026" gives the deadline
\* "March 3, 2026", whatever stands before or after it
C16_LabelledDateFound ==
    (Extracted /\ Contains(text, <<"D","e","a","d","l","i","n","e",":"," ","M","a","r","c","h"," ","3",","," ","2","0","2","6">>))
        => enriched[1]["deadline"] = Str(<<"M","a","r","c","h"," ","3",","," ","2","0","2","6">>)

\* one of the four date patterns matches the text
C17_DateMatches(s) == \E n \in 1..4 : ReSearch(s, n).from > 0

\* a letter, a digit or an underscore at p
C17_InWord(s, p) ==
    /\ p >= 1 /\ p <= Len(s) /\ s[p] # "\n"
    /\ \/ s[p] = "_"
       \/ Ord[s[p]] \in (48..57) \cup (65..90) \cup (97..122)

\* s holds one of the keywords as a whole word, in any letter case
C17_HasKeyword(s) ==
    \E w \in { <<"r","o","l","l","i","n","g">>, <<"o","p","e","n">>, <<"o","n","g","o","i","n","g">>, <<"n","o"," ","d","e","a","d","l","i","n","e">>, <<"c","o","n","t","i","n","u","o","u","s">> } :
        \E p \in 1..(Len(s) - Len(w) + 1) :
            /\ \A k \in 1..Len(w) : s[p + k - 1] # "\n"
            /\ lower(SubSeq(s, p, p + Len(w) - 1)) = w
            /\ ~C17_InWord(s, p - 1)
            /\ ~C17_InWord(s, p + Len(w))

-----------------------------------------------------------------------------
(* Properties of build() on single fields                                  *)

\* the title grounds of the claim: the lowercased, trimmed title is a
\* denylist entry, or the title has fewer than 5 characters
C13_TitleGrounds(g) ==
    \/ \E j \in junk_titles : strip(lower(g["title"])) = j
    \/ Len(g["title"]) < 5

C13_Placeholder(g) == "link" \in DOMAIN g /\ g["link"] # <<>> /\ g["link"][1] = "#"

\* C13: filter_junk removes a record on title grounds only when its
\* lowercased, trimmed title equals a denylist entry or the title is shorter
\* than 5 characters: the records kept are, in order, those with no title
\* ground and no placeholder link; "Apply Now" in any letter case is
\* removed, "Apply Now for the XYZ Award" with a real link is kept
C13_ExactMatchOnly ==
    [][ (prog = "build" /\ pc = "filter") =>
            /\ IsSubSeqAt(grants', grants,
                    {k \in 1..Len(grants) :
                        ~C13_TitleGrounds(grants[k]) /\ ~C13_Placeholder(grants[k])})
            /\ \A k \in 1..Len(grants') : lower(grants'[k]["title"]) # <<"a","p","p","l","y"," ","n","o","w">>
            /\ \A k \in 1..Len(grants) :
                    ( /\ Contains(lower(grants[k]["title"]), <<"a","p","p","l","y"," ","n","o","w">>)
                      /\ Len(grants[k]["title"]) > Len(<<"a","p","p","l","y"," ","n","o","w">>)
                      /\ ~C13_Placeholder(grants[k]) )
                    => \E n \in 1..Len(grants') : grants'[n] = grants[k]
      ]_vars

\* "APPLY NOW" was removed and "Apply Now for the XYZ Award" kept
C13_Witness ==
    /\ prog = "build" /\ pc = "dedupe"
    /\ disk[INPUT_FILE] = <<RecJU, RecJX>>
    /\ FAMILY_FILE \notin DOMAIN disk
    /\ grants = <<RecJX>>

\* the value of field f of g is absent: no key, or None
C14_Absent(g, f) == f \notin DOMAIN g \/ g[f] = None

\* C14: the detail page written for a record shows the fallback text in
\* place of each absent optional field, and "None" in place of no field
C14_FallbackShown ==
    [][ (prog = "build" /\ pc = "pages" /\ pc' # "failed") =>
            LET g == grants[i]
                page == pages'[grant_slugs[i]]
            IN  /\ C14_Absent(g, "deadline") => page.deadline = <<"N","o","t"," ","s","p","e","c","i","f","i","e","d">>
                /\ C14_Absent(g, "summary")
                        => page.summary = <<"V","i","s","i","t"," ","t","h","e"," ","s","o","u","r","c","e"," ","f","o","r"," ","f","u","l","l"," ","d","e","t","a","i","l","s",".">>
                /\ C14_Absent(g, "eligibility")
                        => page.eligibility = <<"S","e","e"," ","t","h","e"," ","o","f","f","i","c","i","a","l"," ","p","a","g","e"," ","f","o","r"," ","r","e","q","u","i","r","e","m","e","n","t","s",".">>
                /\ C14_Absent(g, "amount") => page.amount = <<"S","e","e"," ","d","e","t","a","i","l","s">>
                /\ \A f \in {"deadline", "summary", "eligibility", "amount"} :
                        page[f] # <<"N","o","n","e">>
      ]_vars

\* the amount is falsy or zero: no key, None, '', 0, or a string that reads 0
C19_NoAmount(g) ==
    \/ "amount" \notin DOMAIN g
    \/ g["amount"] \in {None, Str(<<>>), IntV(0)}
    \/ /\ g["amount"].t = "str"
       /\ isdigit(RemoveChar(g["amount"].s, ","))
       /\ StrToInt(RemoveChar(g["amount"].s, ",")) = 0

\* C19: a record whose amount is falsy or zero is handled as a record with
\* no amount: it sorts after every record that has one, the index does not
\* count it, and its page shows "See details"
C19_ZeroIsAbsent ==
    /\ Curated =>
        \A a, b \in 1..Len(grants) :
            (C19_NoAmount(grants[a]) /\ ~C19_NoAmount(grants[b])) => b < a
    /\ (prog = "build" /\ "index.html" \in DOMAIN disk) =>
        disk["index.html"].with_amounts
            = Cardinality({k \in 1..Len(grants) : ~C19_NoAmount(grants[k])})
    /\ (prog = "build" /\ pc \in {"index", "sitemap", "robots", "resources", "done"}) =>
        \A k \in 1..Len(grants) :
            C19_NoAmount(grants[k]) => pages[grant_slugs[k]].amount = <<"S","e","e"," ","d","e","t","a","i","l","s">>

-----------------------------------------------------------------------------
(* Properties of the three stages                                          *)

\* the mandatory input file of the stage that runs is missing
C18_Missing ==
    \/ prog = "build" /\ INPUT_FILE \notin DOMAIN disk
    \/ prog \in {"enricher", "scraper_v2"} /\ INPUT_DATA \notin DOMAIN disk

\* C18: when the mandatory input file of a stage is missing, every step of
\* the run leaves the files, the pages and the directories as they were,
\* and the run is over after it
C18_MissingInputNoOutput ==
    [][ C18_Missing =>
            /\ disk' = disk
            /\ pages' = pages
            /\ dirs' = dirs
            /\ pc' \in {"failed", "done"}
      ]_vars

\* build() ended on the missing input; the index.html of an earlier build
\* is as it was
C18_Witness ==
    /\ prog = "build" /\ pc = "failed" /\ err = "FileNotFoundError"
    /\ INPUT_FILE \notin DOMAIN disk
    /\ "index.html" \in DOMAIN disk /\ disk["index.html"] = build_index(<<>>, <<>>).val
    /\ dirs = {} /\ pages = EmptyDict

-----------------------------------------------------------------------------
(* Properties of two builds in a row                                       *)

\* the number of records of l before the k-th whose title slugifies as its
\* title
C20_Rank(l, k) ==
    Cardinality({j \in 1..(k - 1) : slugify(l[j]["title"]) = slugify(l[k]["title"])})

\* the second build has assigned its slugs
C20_Second ==
    /\ prog = "build" /\ published # NotYet
    /\ pc \in {"pages", "index", "sitemap", "robots", "resources", "done"}

\* C20: the slug of a record is not determined by the record alone: a
\* record rendered by two builds in a row has the same slug in both exactly
\* when the same number of records of its base identifier stand before it
\* in both
C20_SlugFollowsRank ==
    C20_Second =>
        \A a \in 1..Len(published.grants), b \in 1..Len(grants) :
            published.grants[a] = grants[b] =>
                ( (published.slugs[a] = grant_slugs[b])
                    <=> (C20_Rank(published.grants, a) = C20_Rank(grants, b)) )

\* the inputs of the two builds differ by one record; a record of both has
\* two slugs, and a slug of the first build is the slug of another record,
\* whose page replaced the one published
C20_Witness ==
    /\ C20_Second /\ pc = "done"
    /\ \E p \in 1..Len(disk[INPUT_FILE]) :
            RemoveAt(disk[INPUT_FILE], p) = published.input
    /\ \E a \in 1..Len(published.grants), b \in 1..Len(grants) :
            /\ published.grants[a] = grants[b]
            /\ published.slugs[a] # grant_slugs[b]
    /\ \E a \in 1..Len(published.grants), b \in 1..Len(grants) :
            /\ published.slugs[a] = grant_slugs[b]
            /\ published.grants[a]["source"] # grants[b]["source"]
            /\ pages[grant_slugs[b]].source = grants[b]["source"]

-----------------------------------------------------------------------------
(* Properties of the slugs                                                 *)

\* c is one of a-z, 0-9
C21_Alnum(c) == Ord[c] \in (48..57) \cup (97..122)

\* C21: every slug assigned by build() holds only a-z, 0-9 and hyphens and
\* has at most 80 characters, the collision suffix included
C21_SlugSafeAndCapped ==
    prog = "build" =>
        \A k \in 1..Len(grant_slugs) :
            /\ Len(grant_slugs[k]) <= 80
            /\ \A n \in 1..Len(grant_slugs[k]) :
                    grant_slugs[k][n] = "-" \/ C21_Alnum(grant_slugs[k][n])

\* C23: every slug assigned to a record that survived the curation is not
\* empty and begins and ends with one of a-z, 0-9
C23_SlugEndsAlnum ==
    prog = "build" =>
        \A k \in 1..Len(grant_slugs) :
            /\ grant_slugs[k] # <<>>
            /\ C21_Alnum(grant_slugs[k][1])
            /\ C21_Alnum(grant_slugs[k][Len(grant_slugs[k])])

-----------------------------------------------------------------------------
(* Properties of the order of the curation stages                          *)

\* the list build() curates: the input file, then the family records
C22_Input == disk[INPUT_FILE] \o family_grants

\* g passes the junk filter
C22_Passes(g) == ~C13_TitleGrounds(g) /\ ~C13_Placeholder(g)

\* the first record of the input that has the key of in[k] and passes the
\* filter
C22_FirstPassing(in, k) ==
    in[MinOf({j \in 1..Len(in) :
                C3_Key(in[j]) = C3_Key(in[k]) /\ C22_Passes(in[j])})]

\* C22: a junk record never shadows a valid duplicate: for every input
\* record that passes the junk filter, the curated list holds exactly one
\* record of its dedup key, and it is the first input record of this key
\* that passes the filter (the curated list is the list the sort leaves)
C22_JunkNeverShadows ==
    (prog = "build" /\ pc = "makedirs") =>
        \A k \in 1..Len(C22_Input) :
            C22_Passes(C22_Input[k]) =>
                /\ Cardinality({n \in 1..Len(grants) :
                        C3_Key(grants[n]) = C3_Key(C22_Input[k])}) = 1
                /\ \E n \in 1..Len(grants) :
                        grants[n] = C22_FirstPassing(C22_Input, k)

\* the record with the "#" link came first and was dropped; its duplicate
\* with a real link was kept
C22_Witness ==
    /\ prog = "build" /\ pc = "makedirs"
    /\ disk[INPUT_FILE] = <<RecH, RecB>>
    /\ C3_Key(RecH) = C3_Key(RecB)
    /\ FAMILY_FILE \notin DOMAIN disk
    /\ grants = <<RecB>>

-----------------------------------------------------------------------------
(* Properties of the figures extract_amount reads                          *)

RECURSIVE C24_RunEnd(_, _)
\* the position after the run of digits at q
C24_RunEnd(s, q) ==
    IF q <= Len(s) /\ s[q] \in {"0", "1", "2", "3", "4", "5", "6", "7", "8", "9"}
    THEN C24_RunEnd(s, q + 1) ELSE q

\* the numbers written after a dollar sign as one run of digits
C24_Figures(s) ==
    { StrToInt(SubSeq(s, p + 1, C24_RunEnd(s, p + 1) - 1)) :
        p \in {p \in 1..(Len(s) - 1) : C24_RunEnd(s, p + 1) > p + 1 /\ s[p] = "$"} }

\* C24: the amount extract_amount reports is taken over the whole figures:
\* it is an amount, and not smaller than any number the text writes after a
\* dollar sign as one run of digits
C24_WholeFigure ==
    Extracted =>
        \A v \in C24_Figures(text) :
            /\ enriched[1]["amount"] # None
            /\ StrToInt(RemoveChar(enriched[1]["amount"].s, ",")) >= v
=============================================================================
